---- MODULE Spec2Model ----
(***************************************************************************)
(* The two CI scripts of the repository,                                   *)
(*   .github/llm-bot/llm-test-suggestions.mjs   (variant "llm-bot")        *)
(*   .github/scripts/llm-test-suggestions.mjs   (variant "scripts")        *)
(* run side by side on one environment and one behaviour of the external   *)
(* APIs.  The scripts do not interact: run[v] is the state of script v,    *)
(* and every answer of an API is handed to each script waiting for it.     *)
(*                                                                         *)
(* JavaScript values are tagged records.  A string is a sequence of        *)
(* symbols: one character each where the code measures, slices, trims or   *)
(* parses the string, and one symbol for a fixed piece of text otherwise.  *)
(***************************************************************************)
EXTENDS Integers, Sequences, FiniteSets, TLC

(* ---------------- bounds of the explored inputs ---------------- *)
MaxSmallFiles == 1      \* changed-file lists of 0..MaxSmallFiles files
MaxExtraFiles == 1      \* and of MAX_FILES-1 .. MAX_FILES+MaxExtraFiles files
ScenarioFiles == 45     \* the spec's end-to-end scenario
MaxOver == 2            \* patches of up to MAX_PATCH_CHARS_PER_FILE+MaxOver characters
MaxModels == 2          \* entries in the answer of models.list
MaxText == 2            \* characters in the completion's output_text

(* ---------------- program constants ---------------- *)
MAX_FILES == 30
MAX_PATCH_CHARS_PER_FILE == 4000

Variants == {"llm-bot", "scripts"}

(* ---------------- JavaScript values ---------------- *)
Undef == [t |-> "undefined"]
Null == [t |-> "null"]
S(symbols) == [t |-> "string", s |-> symbols]
NaN == [t |-> "number", nan |-> TRUE, neg |-> FALSE, int |-> 0, frac |-> <<>>]
Num(neg, int, frac) == [t |-> "number", nan |-> FALSE, neg |-> neg, int |-> int, frac |-> frac]

\* ToBoolean: undefined, null, "", 0, -0 and NaN are falsy.
Truthy(v) ==
  CASE v.t = "undefined" -> FALSE
    [] v.t = "null" -> FALSE
    [] v.t = "string" -> v.s # <<>>
    [] v.t = "number" -> ~v.nan /\ (v.int # 0 \/ v.frac # <<>>)
    [] OTHER -> TRUE

\* a || b
Or(a, b) == IF Truthy(a) THEN a ELSE b

\* v?.field
Get(v, field) ==
  IF v.t \in {"undefined", "null"} THEN Undef
  ELSE IF field \in DOMAIN v THEN v[field] ELSE Undef

Whitespace == {" ", "\n", "\t"}

RECURSIVE TrimStart(_)
TrimStart(s) ==
  IF s = <<>> THEN <<>>
  ELSE IF Head(s) \in Whitespace THEN TrimStart(Tail(s)) ELSE s

RECURSIVE TrimEnd(_)
TrimEnd(s) ==
  IF s = <<>> THEN <<>>
  ELSE IF s[Len(s)] \in Whitespace THEN TrimEnd(SubSeq(s, 1, Len(s) - 1)) ELSE s

\* String.prototype.trim
Trim(s) == TrimEnd(TrimStart(s))

(* ---------------- Number(process.env.PR_NUMBER) ---------------- *)
DigitValue == ("0" :> 0) @@ ("1" :> 1) @@ ("2" :> 2) @@ ("3" :> 3) @@ ("4" :> 4) @@
              ("5" :> 5) @@ ("6" :> 6) @@ ("7" :> 7) @@ ("8" :> 8) @@ ("9" :> 9)

IsDigits(s) == \A i \in 1..Len(s) : s[i] \in DOMAIN DigitValue

RECURSIVE DigitsValue(_)
DigitsValue(s) ==
  IF s = <<>> THEN 0 ELSE 10 * DigitsValue(SubSeq(s, 1, Len(s) - 1)) + DigitValue[s[Len(s)]]

RECURSIVE StripZeros(_)
StripZeros(s) ==
  IF s = <<>> THEN <<>>
  ELSE IF s[Len(s)] = "0" THEN StripZeros(SubSeq(s, 1, Len(s) - 1)) ELSE s

\* StringToNumber on the decimal literals: [+-] digits [. digits] | [+-] . digits
StringToNumber(str) ==
  LET t == Trim(str)
      signed == t # <<>> /\ Head(t) \in {"+", "-"}
      neg == t # <<>> /\ Head(t) = "-"
      u == IF signed THEN Tail(t) ELSE t
      dots == {i \in 1..Len(u) : u[i] = "."}
      dot == IF dots = {} THEN Len(u) + 1 ELSE CHOOSE i \in dots : \A j \in dots : i <= j
      ip == SubSeq(u, 1, dot - 1)
      fp == SubSeq(u, dot + 1, Len(u))
  IN IF t = <<>> THEN Num(FALSE, 0, <<>>)
     ELSE IF Cardinality(dots) <= 1 /\ IsDigits(ip) /\ IsDigits(fp) /\ Len(ip) + Len(fp) >= 1
          THEN Num(neg, DigitsValue(ip), StripZeros(fp))
          ELSE NaN

Number(v) ==
  CASE v.t = "undefined" -> NaN
    [] v.t = "null" -> Num(FALSE, 0, <<>>)
    [] v.t = "string" -> StringToNumber(v.s)
    [] OTHER -> NaN

(* ---------------- truncate / toSafePatch ---------------- *)
Ellipsis == "..."   \* the one character U+2026
TruncationMarker == <<"\n", Ellipsis, "(", "t", "r", "u", "n", "c", "a", "t", "e", "d", ")">>

NoPatchSentinel ==
  <<"(", "n", "o", " ", "p", "a", "t", "c", "h", " ", "p", "r", "o", "v", "i", "d", "e", "d",
    " ", "b", "y", " ", "G", "i", "t", "H", "u", "b", " ", "f", "o", "r", " ", "t", "h", "i",
    "s", " ", "f", "i", "l", "e", ")">>

\* mutant: slice(-max), the last max entries
Slice_FromEnd(seq, max) == SubSeq(seq, IF Len(seq) < max THEN 1 ELSE Len(seq) - max + 1, Len(seq))

\* str.slice(0, max)
Slice(seq, max) == SubSeq(seq, 1, IF Len(seq) < max THEN Len(seq) ELSE max)

\* mutant: the cap compared with < instead of <=
truncate_OffByOne(str, max) ==
  IF ~Truthy(str) THEN S(<<>>)
  ELSE IF Len(str.s) < max THEN str ELSE S(SubSeq(str.s, 1, max) \o TruncationMarker)

truncate(str, max) ==
  IF ~Truthy(str) THEN S(<<>>)
  ELSE IF Len(str.s) <= max THEN str ELSE S(Slice(str.s, max) \o TruncationMarker)

toSafePatch(patch) == Or(patch, S(NoPatchSentinel))

(* ---------------- chooseModel (llm-bot only) ---------------- *)
Returned(value) == [raised |-> FALSE, value |-> value]
Raised(value) == [raised |-> TRUE, value |-> value]
Error(message) == [t |-> "object", message |-> S(message)]
Array(items) == [t |-> "array", items |-> items]

PreferredModels ==
  <<S(<<"gpt-5">>), S(<<"gpt-5-mini">>), S(<<"gpt-5.2">>), S(<<"gpt-5.2-mini">>),
    S(<<"gpt-4.1-mini">>), S(<<"gpt-4.1">>), S(<<"gpt-4o-mini">>), S(<<"gpt-4o">>)>>

DefaultModel == S(<<"gpt-4o-mini">>)

\* new Set(data.map((m) => m.id)): a TypeError unless data is an array whose
\* entries can be read
MapIds(data) ==
  IF data.t # "array" THEN Raised(Error(<<"data.map is not a function">>))
  ELSE IF \E i \in 1..Len(data.items) : data.items[i].t \in {"undefined", "null"}
       THEN Raised(Error(<<"Cannot read properties of null">>))
       ELSE Returned({Get(data.items[i], "id") : i \in 1..Len(data.items)})

\* preferred.find((m) => available.has(m))
RECURSIVE FindFrom(_, _, _)
FindFrom(list, i, available) ==
  IF i > Len(list) THEN Undef
  ELSE IF list[i] \in available THEN list[i] ELSE FindFrom(list, i + 1, available)

ListFailedLog == "Failed to list models, falling back to default:"
Logged(result, line) == [raised |-> result.raised, value |-> result.value, log |-> line]

\* mutant: no try/catch around the listing
chooseModel_NoCatch(listed) ==
  IF listed.raised THEN Logged(Raised(listed.value), <<>>)
  ELSE LET available == MapIds(Or(Get(listed.value, "data"), Array(<<>>)))
       IN IF available.raised THEN Logged(Raised(available.value), <<>>)
          ELSE Logged(Returned(Or(FindFrom(PreferredModels, 1, available.value),
                                  DefaultModel)), <<>>)

\* mutant: the first listed model that is preferred, not the most preferred one listed
chooseModel_ApiOrder(listed) ==
  IF listed.raised THEN Logged(Returned(DefaultModel), <<ListFailedLog>>)
  ELSE LET data == Or(Get(listed.value, "data"), Array(<<>>))
           preferred == {PreferredModels[i] : i \in 1..Len(PreferredModels)}
       IN IF MapIds(data).raised THEN Logged(Returned(DefaultModel), <<ListFailedLog>>)
          ELSE Logged(Returned(Or(FindFrom([i \in 1..Len(data.items) |-> data.items[i].id],
                                           1, preferred), DefaultModel)), <<>>)

\* listed: how client.models.list() settled.  The result carries what the catch
\* block wrote with console.error (its fixed first argument).
chooseModel(listed) ==
  IF listed.raised THEN Logged(Returned(DefaultModel), <<ListFailedLog>>)
  ELSE LET available == MapIds(Or(Get(listed.value, "data"), Array(<<>>)))
       IN IF available.raised THEN Logged(Returned(DefaultModel), <<ListFailedLog>>)
          ELSE Logged(Returned(Or(FindFrom(PreferredModels, 1, available.value),
                                  DefaultModel)), <<>>)

(* ---------------- the environment and the answers of the APIs ---------------- *)
BoundedSeq(set, n) == UNION {[1..k -> set] : k \in 0..n}

KeyInputs == {Undef, S(<<>>), S(<<"sk-key">>)}
TokenInputs == {Undef, S(<<>>), S(<<"ghs-token">>)}
RepoInputs == {Undef, S(<<>>), S(<<"o", "/", "r">>)}
PrNumberInputs ==
  {Undef, S(<<>>), S(<<"0">>), S(<<"-", "0">>), S(<<"x">>), S(<<"7", "x">>), S(<<"-">>),
   S(<<"7">>), S(<<"7", ".", "0">>), S(<<"-", "7">>), S(<<"1", ".", "5">>)}

Environments ==
  [OPENAI_API_KEY : KeyInputs, GITHUB_TOKEN : TokenInputs,
   PR_NUMBER : PrNumberInputs, REPO : RepoInputs]

Ref(name) == [t |-> "object", ref |-> S(<<name>>)]
PullRequest(user) ==
  [t |-> "object",
   data |-> [t |-> "object", title |-> S(<<"Fix login">>), user |-> user,
             base |-> Ref("main"), head |-> Ref("fix-login"),
             html_url |-> S(<<"https://host/o/r/pull/7">>)]]
PullRequests == {PullRequest([t |-> "object", login |-> S(<<"octocat">>)])}

PatchChar(i) == IF i % 7 = 0 THEN "-" ELSE IF i % 3 = 0 THEN "\n" ELSE "+"
PatchOfLength(n) == S([i \in 1..n |-> PatchChar(i)])
ShortPatches == <<Undef, S(<<>>), PatchOfLength(3), Null, PatchOfLength(1)>>

File(id, patch) ==
  [t |-> "object", filename |-> S(<<"src/f", ToString(id), ".js">>),
   status |-> S(<<"modified">>), additions |-> id, deletions |-> id % 3, patch |-> patch]

\* the API's order is not the order of the names
FileId(i, p) == (i * (6 + p)) % 47
FileList(n, p) == [i \in 1..n |-> File(FileId(i, p), ShortPatches[((i + p) % Len(ShortPatches)) + 1])]

FileCounts ==
  (0..MaxSmallFiles) \cup ((MAX_FILES - 1)..(MAX_FILES + MaxExtraFiles)) \cup {ScenarioFiles}
LongPatchLengths == (MAX_PATCH_CHARS_PER_FILE - 1)..(MAX_PATCH_CHARS_PER_FILE + MaxOver)

FileLists ==
  {FileList(n, p) : n \in FileCounts, p \in 1..2}
    \cup {<<File(1, PatchOfLength(n)), File(2, Undef)>> : n \in LongPatchLengths}

HostErrors == {Error(<<"Not Found">>), Null}

ModelIds == {"gpt-5.2", "gpt-4.1", "gpt-4o-mini", "gpt-4o", "o3"}
ModelObjects == {[t |-> "object", id |-> S(<<m>>)] : m \in ModelIds}
ModelLists ==
  {[t |-> "object", data |-> Array(items)] : items \in BoundedSeq(ModelObjects, MaxModels)}
    \cup {Undef, [t |-> "object"], [t |-> "object", data |-> [t |-> "object"]],
          [t |-> "object", data |-> Array(<<Null>>)]}

ErrorMessages == {Undef, S(<<>>), S(<<"insufficient_quota">>)}
Messages == {Undef, S(<<>>), S(<<"Request failed">>)}
ApiError(structured, message) ==
  [t |-> "object",
   error |-> IF structured = Undef THEN Undef ELSE [t |-> "object", message |-> structured],
   message |-> message]
ThrownValues == {ApiError(e, m) : e \in ErrorMessages, m \in Messages} \cup {Undef, Null}

OutputTexts == {S(s) : s \in BoundedSeq({" ", "T", "\n"}, MaxText)} \cup {Undef, Null}
Responses == {[t |-> "object", output_text |-> x] : x \in OutputTexts}

(* ---------------- the script, from one await to the next ---------------- *)
VARIABLES
  env,      \* process.env, the same for both scripts
  run,      \* run[v]: the top-level bindings of script v and where it stands
  answer    \* how the call answered last settled

vars == <<env, run, answer>>

NewRun ==
  [pc |-> "start", PR_NUMBER |-> Undef, owner |-> Undef, repo |-> Undef, pr |-> Undef,
   files |-> <<>>, changed |-> <<>>, prompt |-> Undef, chosenModel |-> Undef,
   md |-> Undef, modelNote |-> Undef, comment |-> Undef,
   outputs |-> <<>>, calls |-> <<>>, logs |-> <<>>, thrown |-> Undef]

\* an error nothing catches ends the process
Uncaught(r, err) == [r EXCEPT !.pc = "aborted", !.thrown = err]

Call(r, api, args) == Append(r.calls, [api |-> api, args |-> args])

\* the first of the four checks that throws, <<>> when none does
MissingConfig(e, prNumber) ==
  IF ~Truthy(e.OPENAI_API_KEY) THEN <<"Missing OPENAI_API_KEY secret">>
  ELSE IF ~Truthy(e.GITHUB_TOKEN) THEN <<"Missing GITHUB_TOKEN">>
  ELSE IF ~Truthy(prNumber) THEN <<"Missing PR_NUMBER">>
  ELSE IF ~Truthy(e.REPO) THEN <<"Missing REPO">>
  ELSE <<>>

\* str.split(sep)
RECURSIVE Split(_, _)
Split(s, sep) ==
  LET at == {i \in 1..Len(s) : s[i] = sep}
      first == CHOOSE i \in at : \A j \in at : i <= j
  IN IF at = {} THEN <<s>>
     ELSE <<SubSeq(s, 1, first - 1)>> \o Split(SubSeq(s, first + 1, Len(s)), sep)

\* const [a, b] = list
Element(list, i) == IF i <= Len(list) THEN S(list[i]) ELSE Undef

\* the environment checks, then the request for the PR
ScriptStart(r, e) ==
  LET prNumber == Number(e.PR_NUMBER)
      missing == MissingConfig(e, prNumber)
      parts == Split(e.REPO.s, "/")
      owner == Element(parts, 1)
      repo == Element(parts, 2)
  IN IF missing # <<>> THEN Uncaught([r EXCEPT !.PR_NUMBER = prNumber], Error(missing))
     ELSE [r EXCEPT !.pc = "await pulls.get", !.PR_NUMBER = prNumber,
                    !.owner = owner, !.repo = repo,
                    !.calls = Call(r, "pulls.get",
                                   [owner |-> owner, repo |-> repo, pull_number |-> prNumber])]

\* 1) the PR has settled; 2) ask for the changed files
OnPullsGet(r, settled) ==
  IF settled.raised THEN Uncaught(r, settled.value)
  ELSE [r EXCEPT !.pc = "await listFiles", !.pr = settled.value,
                 !.calls = Call(r, "paginate(listFiles)",
                                [owner |-> r.owner, repo |-> r.repo,
                                 pull_number |-> r.PR_NUMBER, per_page |-> 100])]

Changed(files) ==
  LET kept == Slice(files, MAX_FILES)
  IN [i \in 1..Len(kept) |->
        [filename |-> kept[i].filename, status |-> kept[i].status,
         additions |-> kept[i].additions, deletions |-> kept[i].deletions,
         patch |-> truncate(toSafePatch(Get(kept[i], "patch")), MAX_PATCH_CHARS_PER_FILE)]]

\* `${value}`
Interpolate(v) ==
  CASE v.t = "undefined" -> S(<<"undefined">>)
    [] v.t = "null" -> S(<<"null">>)
    [] OTHER -> v

\* The prompt, by the fields its template interpolates, in the template's order;
\* the instructions are the only text that differs between the two scripts.
Prompt(v, pr, changed) ==
  [t |-> "string",
   instructions |-> IF v = "llm-bot" THEN "QA focus, four sections and open questions"
                    ELSE "what to test, five sections",
   title |-> Interpolate(pr.data.title),
   author |-> Interpolate(Get(pr.data.user, "login")),
   base |-> Interpolate(Get(pr.data.base, "ref")),
   head |-> Interpolate(Get(pr.data.head, "ref")),
   url |-> Interpolate(pr.data.html_url),
   files |-> [i \in 1..Len(changed) |-> [index |-> i] @@ changed[i]]]

FixedModel == S(<<"gpt-5.2">>)

\* 3) the prompt over the files fetched; 4) the next request
Composed(v, r, files) ==
  LET changed == Changed(files)
      prompt == Prompt(v, r.pr, changed)
      r1 == [r EXCEPT !.files = files, !.changed = changed, !.prompt = prompt]
  IN IF v = "llm-bot"
     THEN [r1 EXCEPT !.pc = "await models.list", !.calls = Call(r, "models.list", <<>>)]
     ELSE [r1 EXCEPT !.pc = "await responses.create",
                     !.calls = Call(r, "responses.create",
                                    [model |-> FixedModel, input |-> prompt])]

\* mutant: a failed listing is caught and taken for an empty list
OnListFiles_FallsBack(v, r, settled) ==
  Composed(v, r, IF settled.raised THEN <<>> ELSE settled.value)

\* 2) the file list has settled
OnListFiles(v, r, settled) ==
  IF settled.raised THEN Uncaught(r, settled.value) ELSE Composed(v, r, settled.value)

\* llm-bot: chooseModel returns, and the completion is requested
OnModelsList(r, settled) ==
  LET chosen == chooseModel(settled)
  IN IF chosen.raised THEN Uncaught(r, chosen.value)
     ELSE [r EXCEPT !.pc = "await responses.create", !.chosenModel = chosen.value,
                    !.modelNote = S(<<>>), !.logs = r.logs \o chosen.log,
                    !.calls = Call(r, "responses.create",
                                   [model |-> chosen.value, input |-> r.prompt])]

(* ---------------- the completion has settled: md, comment, output ---------------- *)
NoOutput == <<"No output from model.">>
WarningHeader == "(warning sign) **LLM test suggestions are temporarily unavailable**"
RemediationBullets ==
  <<"What to do:", "\n", "- Check OpenAI API billing / quota", "\n",
    "- Verify the model is available for this API key", "\n",
    "- Re-run the workflow after fixing">>
CommentHeader ==
  <<"### (check mark) QA test suggestions (LLM)", "\n", "\n",
    "> Generated from PR diff. Please treat as recommendations, not a gate.">>

\* err?.error?.message || err?.message || "Unknown error"
Reason(err) ==
  Or(Or(Get(Get(err, "error"), "message"), Get(err, "message")), S(<<"Unknown error">>))

FallbackBlock(err) ==
  S(Trim(<<"\n", WarningHeader, "\n", "\n", "Reason:", "\n", "- ">> \o Interpolate(Reason(err)).s
         \o <<"\n", "\n">> \o RemediationBullets
         \o <<"\n", "\n", "This does **not** block the PR.", "\n">>))

ModelNote(label, model) == S(<<"<sub>", label>> \o Interpolate(model).s \o <<"</sub>">>)

Min(a, b) == IF a <= b THEN a ELSE b

FilesAnalyzed(files) ==
  <<"<sub>Files analyzed: ", ToString(Min(Len(files), MAX_FILES)), " (of ",
    ToString(Len(files)), ")</sub>">>

\* 5) the comment; 6) core.setOutput("body", comment)
Finish(v, r) ==
  LET note == IF v = "llm-bot" THEN Interpolate(r.modelNote).s \o <<"\n">> ELSE <<>>
      comment == S(Trim(<<"\n">> \o CommentHeader \o <<"\n", "\n">> \o Interpolate(r.md).s
                        \o <<"\n", "\n">> \o FilesAnalyzed(r.files) \o <<"\n">> \o note))
  IN [r EXCEPT !.pc = "done", !.comment = comment,
               !.outputs = Append(@, [name |-> "body", value |-> comment])]

\* mutant: a failed completion is asked for again
BotOnCompletion_Retries(r, settled) ==
  IF ~settled.raised
  THEN Finish("llm-bot",
              [r EXCEPT !.md = Or(S(Trim(Or(Get(settled.value, "output_text"), S(<<>>)).s)),
                                  S(NoOutput)),
                        !.modelNote = ModelNote("Model: ", r.chosenModel)])
  ELSE [r EXCEPT !.calls = Call(r, "responses.create",
                                [model |-> r.chosenModel, input |-> r.prompt])]

\* llm-bot: the try block and its catch
BotOnCompletion(r, settled) ==
  IF ~settled.raised
  THEN Finish("llm-bot",
              [r EXCEPT !.md = Or(S(Trim(Or(Get(settled.value, "output_text"), S(<<>>)).s)),
                                  S(NoOutput)),
                        !.modelNote = ModelNote("Model: ", r.chosenModel)])
  ELSE Finish("llm-bot",
              [r EXCEPT !.logs = Append(r.logs, "LLM error:"),
                        !.md = FallbackBlock(settled.value),
                        !.modelNote = ModelNote("Attempted model: ", r.chosenModel)])

\* text?.trim()
OptionalTrim(text) == IF text.t \in {"undefined", "null"} THEN Undef ELSE S(Trim(text.s))

\* scripts: the await stands outside any try
ScriptsOnCompletion(r, settled) ==
  IF settled.raised THEN Uncaught(r, settled.value)
  ELSE Finish("scripts",
              [r EXCEPT !.md = Or(OptionalTrim(Get(settled.value, "output_text")), S(NoOutput))])

OnCompletion(v, r, settled) ==
  IF v = "llm-bot" THEN BotOnCompletion(r, settled) ELSE ScriptsOnCompletion(r, settled)

(* ---------------- the state machine ---------------- *)
NoAnswer == [api |-> "none", raised |-> FALSE, value |-> Undef]
Settled(api, settled) == [api |-> api, raised |-> settled.raised, value |-> settled.value]

Init ==
  /\ env \in Environments
  /\ run = [v \in Variants |-> NewRun]
  /\ answer = NoAnswer

Waiting(at) == {v \in Variants : run[v].pc = at}

\* a pending call settles; the scripts waiting for it resume in the next step
Settles(api, settled) ==
  /\ answer.api = "none"
  /\ answer' = Settled(api, settled)
  /\ UNCHANGED <<env, run>>

Start ==
  /\ Waiting("start") # {}
  /\ run' = [v \in Variants |->
               IF v \in Waiting("start") THEN ScriptStart(run[v], env) ELSE run[v]]
  /\ UNCHANGED <<env, answer>>

PullsGetReturns ==
  /\ Waiting("await pulls.get") # {}
  /\ \E pr \in PullRequests : Settles("pulls.get", Returned(pr))

PullsGetRaises ==
  /\ Waiting("await pulls.get") # {}
  /\ \E err \in HostErrors : Settles("pulls.get", Raised(err))

AfterPullsGet ==
  /\ answer.api = "pulls.get"
  /\ run' = [v \in Variants |->
               IF v \in Waiting("await pulls.get") THEN OnPullsGet(run[v], answer) ELSE run[v]]
  /\ answer' = NoAnswer
  /\ UNCHANGED env

ListFilesReturns ==
  /\ Waiting("await listFiles") # {}
  /\ \E files \in FileLists : Settles("paginate(listFiles)", Returned(files))

ListFilesRaises ==
  /\ Waiting("await listFiles") # {}
  /\ \E err \in HostErrors : Settles("paginate(listFiles)", Raised(err))

AfterListFiles ==
  /\ answer.api = "paginate(listFiles)"
  /\ run' = [v \in Variants |->
               IF v \in Waiting("await listFiles") THEN OnListFiles(v, run[v], answer)
               ELSE run[v]]
  /\ answer' = NoAnswer
  /\ UNCHANGED env

ModelsListReturns ==
  /\ Waiting("await models.list") # {}
  /\ \E models \in ModelLists : Settles("models.list", Returned(models))

ModelsListRaises ==
  /\ Waiting("await models.list") # {}
  /\ \E err \in ThrownValues : Settles("models.list", Raised(err))

AfterModelsList ==
  /\ answer.api = "models.list"
  /\ run' = [v \in Variants |->
               IF v \in Waiting("await models.list") THEN OnModelsList(run[v], answer)
               ELSE run[v]]
  /\ answer' = NoAnswer
  /\ UNCHANGED env

\* The completion settles once no script is still selecting its model, so that the
\* scripts that asked for it get the same answer.
CompletionReturns ==
  /\ Waiting("await responses.create") # {}
  /\ Waiting("await models.list") = {}
  /\ \E response \in Responses : Settles("responses.create", Returned(response))

CompletionRaises ==
  /\ Waiting("await responses.create") # {}
  /\ Waiting("await models.list") = {}
  /\ \E err \in ThrownValues : Settles("responses.create", Raised(err))

AfterCompletion ==
  /\ answer.api = "responses.create"
  /\ run' = [v \in Variants |->
               IF v \in Waiting("await responses.create") THEN OnCompletion(v, run[v], answer)
               ELSE run[v]]
  /\ answer' = NoAnswer
  /\ UNCHANGED env

Next ==
  \/ Start
  \/ PullsGetReturns
  \/ PullsGetRaises
  \/ AfterPullsGet
  \/ ListFilesReturns
  \/ ListFilesRaises
  \/ AfterListFiles
  \/ ModelsListReturns
  \/ ModelsListRaises
  \/ AfterModelsList
  \/ CompletionReturns
  \/ CompletionRaises
  \/ AfterCompletion

Spec == Init /\ [][Next]_vars

(* ---------------- what the properties speak about ---------------- *)
Bot == run["llm-bot"]
Scripts == run["scripts"]

Contains(seq, sub) ==
  \E i \in 0..(Len(seq) - Len(sub)) : SubSeq(seq, i + 1, i + Len(sub)) = sub

CallNames(r) == [i \in 1..Len(r.calls) |-> r.calls[i].api]
CallsTo(r, api) == {i \in 1..Len(r.calls) : r.calls[i].api = api}
HostingApis == {"pulls.get", "paginate(listFiles)"}

\* the body a finished run emitted under the name "body"
Emitted(r) == {i \in 1..Len(r.outputs) : r.outputs[i].name = "body"}
Body(r) == r.outputs[1].value.s

\* the model the completion was asked for
AskedModel(r) == r.calls[Len(r.calls)].args.model

\* the script resumes from `api`, which settled as the step begins
Resumes(v, api) == answer.api = api /\ run[v].pc # "aborted" /\ run[v].pc # "done"

PresentAndNonEmpty(value) == value.t = "string" /\ value.s # <<>>

\* the text of a positive integer
PositiveIntegerText(value) ==
  /\ PresentAndNonEmpty(value)
  /\ LET n == StringToNumber(value.s) IN ~n.nan /\ ~n.neg /\ n.int > 0 /\ n.frac = <<>>

\* the reason line the spec gives for a raised value
ClaimedReason(err) ==
  LET structured == IF err.t = "object" /\ "error" \in DOMAIN err /\ err.error.t = "object"
                    THEN err.error.message ELSE Undef
      generic == IF err.t = "object" /\ "message" \in DOMAIN err THEN err.message ELSE Undef
  IN IF PresentAndNonEmpty(structured) THEN structured.s
     ELSE IF PresentAndNonEmpty(generic) THEN generic.s ELSE <<"Unknown error">>

\* the text between the first and the last character that is not whitespace
ClaimedTrim(text) ==
  LET solid == {i \in 1..Len(text) : text[i] \notin Whitespace}
      first == CHOOSE i \in solid : \A j \in solid : i <= j
      last == CHOOSE i \in solid : \A j \in solid : j <= i
  IN IF solid = {} THEN <<>> ELSE SubSeq(text, first, last)

ClaimedText(response) ==
  LET text == response.output_text
      trimmed == IF text.t = "string" THEN ClaimedTrim(text.s) ELSE <<>>
  IN IF trimmed = <<>> THEN <<"No output from model.">> ELSE trimmed

Footnote(label, model) == <<"<sub>", label>> \o model.s \o <<"</sub>">>

(* ---------------- C1 ---------------- *)
\* The fallback of a raised completion, for script v: the run ends normally, "body"
\* is emitted exactly once, and the body holds the warning header, a non-empty
\* reason line, the remediation bullets and "Attempted model: X", X the model asked.
CompletionFailureFallsBack(v) ==
  (Resumes(v, "responses.create") /\ answer.raised) =>
    /\ run'[v].pc = "done"
    /\ Cardinality(Emitted(run'[v])) = 1
    /\ Len(run'[v].outputs) = 1
    /\ Contains(Body(run'[v]), <<WarningHeader>>)
    /\ ClaimedReason(answer.value) # <<>>
    /\ Contains(Body(run'[v]), <<"Reason:", "\n", "- ">> \o ClaimedReason(answer.value) \o <<"\n">>)
    /\ Contains(Body(run'[v]), RemediationBullets)
    /\ Contains(Body(run'[v]), Footnote("Attempted model: ", AskedModel(run[v])))

\* C1: in every run with a valid configuration and both PR fetches done, a completion
\* call that raises any error still ends in the output "body", emitted once, with the
\* warning header, a non-empty reason, the remediation bullets and the footnote
\* "Attempted model: X" for the model passed to the call.
C1_CompletionFailureStillEmitsBody ==
  [][\A v \in Variants : CompletionFailureFallsBack(v)]_vars

\* what C1 says, of the llm-bot script alone
C1_BotFallsBack == [][CompletionFailureFallsBack("llm-bot")]_vars

(* ---------------- C2 ---------------- *)
Finished(r) == r.pc \in {"done", "aborted"}

\* header, model text or fallback block, files-analyzed footer, model footnote
BodyStructure(r) ==
  [header |-> Contains(Body(r), CommentHeader),
   fallback |-> Contains(Body(r), <<WarningHeader>>),
   footer |-> Contains(Body(r), <<"<sub>Files analyzed: ">>),
   footnote |-> Contains(Body(r), <<"<sub>", "Model: ">>)
                  \/ Contains(Body(r), <<"<sub>", "Attempted model: ">>)]

CompletionModels(r) ==
  [i \in CallsTo(r, "responses.create") |-> r.calls[i].args.model]

\* C2: side by side on the same environment and the same answers, the two scripts
\* make the same external calls in the same order, end in the same outcome, ask the
\* completion for the same model, and emit bodies of the same structure.
C2_VariantsDifferOnlyInPrompt ==
  (Finished(Bot) /\ Finished(Scripts)) =>
    /\ CallNames(Bot) = CallNames(Scripts)
    /\ Bot.pc = Scripts.pc
    /\ CompletionModels(Bot) = CompletionModels(Scripts)
    /\ (Bot.pc = "done" /\ Scripts.pc = "done") => BodyStructure(Bot) = BodyStructure(Scripts)

(* ---------------- C3 ---------------- *)
ClaimedValid(e) ==
  /\ PresentAndNonEmpty(e.OPENAI_API_KEY)
  /\ PresentAndNonEmpty(e.GITHUB_TOKEN)
  /\ PositiveIntegerText(e.PR_NUMBER)
  /\ PresentAndNonEmpty(e.REPO)

\* the thrown error names a value that is in fact invalid
NamesOffendingValue(err, e) ==
  /\ err.t = "object"
  /\ \/ err.message.s = <<"Missing OPENAI_API_KEY secret">> /\ ~PresentAndNonEmpty(e.OPENAI_API_KEY)
     \/ err.message.s = <<"Missing GITHUB_TOKEN">> /\ ~PresentAndNonEmpty(e.GITHUB_TOKEN)
     \/ err.message.s = <<"Missing PR_NUMBER">> /\ ~PositiveIntegerText(e.PR_NUMBER)
     \/ err.message.s = <<"Missing REPO">> /\ ~PresentAndNonEmpty(e.REPO)

\* C3: with the API key, the hosting token, the PR number or the repository absent or
\* empty, or the PR number not a valid positive integer, the run ends with an error
\* naming the offending value, with no API call made and no output emitted.
C3_InvalidConfigRejected ==
  \A v \in Variants :
    (run[v].pc # "start" /\ ~ClaimedValid(env)) =>
      /\ run[v].pc = "aborted"
      /\ NamesOffendingValue(run[v].thrown, env)
      /\ run[v].calls = <<>>
      /\ run[v].outputs = <<>>

\* what the checks of the code do reject: a value absent or empty, or a PR number
\* that Number() turns into 0 or NaN
C3_FalsyConfigRejected ==
  \A v \in Variants :
    (run[v].pc # "start"
       /\ ~(/\ PresentAndNonEmpty(env.OPENAI_API_KEY) /\ PresentAndNonEmpty(env.GITHUB_TOKEN)
            /\ PresentAndNonEmpty(env.REPO) /\ Truthy(Number(env.PR_NUMBER)))) =>
      /\ run[v].pc = "aborted"
      /\ run[v].calls = <<>>
      /\ run[v].outputs = <<>>

(* ---------------- C4 ---------------- *)
\* C4: when the PR fetch or the changed-file listing raises, the run aborts there:
\* the fetch is not asked again, no later call is made (no model list, no
\* completion), and no "body" is ever emitted; an aborted run stays as it is.
C4_FetchFailureAborts ==
  [][\A v \in Variants :
       /\ (\E api \in HostingApis : Resumes(v, api) /\ answer.raised) =>
            /\ run'[v].pc = "aborted"
            /\ run'[v].thrown = answer.value
            /\ run'[v].calls = run[v].calls
            /\ CallsTo(run'[v], "models.list") = {}
            /\ CallsTo(run'[v], "responses.create") = {}
            /\ \A api \in HostingApis : Cardinality(CallsTo(run'[v], api)) <= 1
            /\ run'[v].outputs = <<>>
       /\ run[v].pc = "aborted" => run'[v] = run[v]]_vars

\* a run aborted by the failed listing of the changed files
C4_Witness ==
  \E v \in Variants :
    /\ run[v].pc = "aborted"
    /\ CallNames(run[v]) = <<"pulls.get", "paginate(listFiles)">>
    /\ run[v].thrown \in HostErrors
    /\ run[v].outputs = <<>>

(* ---------------- C5 ---------------- *)
\* C5: when the completion returns, the body holds the returned text trimmed, or
\* "No output from model." for a missing, empty or blank text; it carries "Model: X",
\* X the model that selection returned and the call was given; it holds neither the
\* warning header nor "Attempted model:".  Every emitted body carries exactly one of
\* the two footnotes.
C5_SuccessBody ==
  [][\A v \in Variants :
       /\ (Resumes(v, "responses.create") /\ ~answer.raised) =>
            /\ run'[v].pc = "done"
            /\ Contains(Body(run'[v]), <<"\n", "\n">> \o ClaimedText(answer.value) \o <<"\n", "\n">>)
            /\ run[v].chosenModel.t = "string"
            /\ AskedModel(run[v]) = run[v].chosenModel
            /\ Contains(Body(run'[v]), Footnote("Model: ", run[v].chosenModel))
            /\ ~Contains(Body(run'[v]), <<WarningHeader>>)
            /\ ~Contains(Body(run'[v]), <<"Attempted model: ">>)
       /\ run'[v].pc = "done" =>
            (Contains(Body(run'[v]), <<"<sub>", "Model: ">>)
               # Contains(Body(run'[v]), <<"<sub>", "Attempted model: ">>))]_vars

\* what C5 says, of the llm-bot script alone
C5_BotSuccessBody ==
  [][/\ (Resumes("llm-bot", "responses.create") /\ ~answer.raised) =>
          /\ Bot'.pc = "done"
          /\ Contains(Body(Bot'), <<"\n", "\n">> \o ClaimedText(answer.value) \o <<"\n", "\n">>)
          /\ AskedModel(Bot) = Bot.chosenModel
          /\ Contains(Body(Bot'), Footnote("Model: ", Bot.chosenModel))
          /\ ~Contains(Body(Bot'), <<WarningHeader>>)
          /\ ~Contains(Body(Bot'), <<"Attempted model: ">>)
     /\ Bot'.pc = "done" =>
          (Contains(Body(Bot'), <<"<sub>", "Model: ">>)
             # Contains(Body(Bot'), <<"<sub>", "Attempted model: ">>))]_vars

(* ---------------- C6 ---------------- *)
Composes(r) == r.prompt.t = "string"
SameFile(sent, file) ==
  /\ sent.filename = file.filename
  /\ sent.status = file.status
  /\ sent.additions = file.additions
  /\ sent.deletions = file.deletions

\* C6: of N changed files the prompt holds the first min(N, 30), in the order the API
\* returned them (all of them when N <= 30), and the footer of the body reads
\* "Files analyzed: K (of N)" with K = min(N, 30), the number of files in the prompt.
C6_FirstThirtyFiles ==
  \A v \in Variants :
    Composes(run[v]) =>
      LET N == Len(run[v].files)
          K == IF N <= 30 THEN N ELSE 30
          sent == run[v].prompt.files
      IN /\ Len(sent) = K
         /\ \A i \in 1..K : sent[i].index = i /\ SameFile(sent[i], run[v].files[i])
         /\ \A i \in CallsTo(run[v], "responses.create") :
              run[v].calls[i].args.input.files = sent
         /\ run[v].pc = "done" =>
              Contains(Body(run[v]),
                       <<"<sub>Files analyzed: ", ToString(K), " (of ", ToString(N), ")</sub>">>)

\* the scenario of the spec: 45 changed files, "Files analyzed: 30 (of 45)"
C6_Witness ==
  \E v \in Variants :
    /\ run[v].pc = "done"
    /\ Len(run[v].files) = 45
    /\ Len(run[v].prompt.files) = 30
    /\ Contains(Body(run[v]), <<"<sub>Files analyzed: ", "30", " (of ", "45", ")</sub>">>)

(* ---------------- C7 ---------------- *)
\* the patch of a file record, or the sentinel when the record holds none
\* (no patch field, null, or the empty string)
ClaimedPatch(file) ==
  IF "patch" \in DOMAIN file /\ PresentAndNonEmpty(file.patch) THEN file.patch.s
  ELSE NoPatchSentinel

\* C7: the patch in the prompt is the sentinel for a record without a patch (never
\* an empty string, never undefined or null), the patch otherwise; of at most 4000
\* characters it is unchanged, longer it is its first 4000 characters and then the
\* truncation marker, 4000 plus the marker's length in all.
C7_PatchInPrompt ==
  \A v \in Variants :
    Composes(run[v]) =>
      \A i \in 1..Len(run[v].prompt.files) :
        LET text == ClaimedPatch(run[v].files[i])
            sent == run[v].prompt.files[i].patch
        IN /\ sent.t = "string"
           /\ sent.s # <<>>
           /\ Len(text) <= 4000 => sent.s = text
           /\ Len(text) > 4000 =>
                /\ sent.s = SubSeq(text, 1, 4000) \o TruncationMarker
                /\ Len(sent.s) = 4000 + Len(TruncationMarker)

\* a prompt with a truncated patch and with the sentinel
C7_Witness ==
  \E v \in Variants :
    /\ Composes(run[v])
    /\ \E i \in 1..Len(run[v].prompt.files) :
         /\ run[v].files[i].patch.t = "string"
         /\ Len(run[v].files[i].patch.s) > 4000
         /\ Len(run[v].prompt.files[i].patch.s) = 4013
    /\ \E i \in 1..Len(run[v].prompt.files) :
         /\ run[v].files[i].patch = Undef
         /\ run[v].prompt.files[i].patch.s = NoPatchSentinel

(* ---------------- C8 ---------------- *)
\* the identifiers a well-formed answer of models.list lists
ListedIds(models) ==
  IF models.t = "object" /\ "data" \in DOMAIN models /\ models.data.t = "array"
  THEN {models.data.items[i].id : i \in {j \in 1..Len(models.data.items) :
                                           models.data.items[j].t = "object"}}
  ELSE {}

MostPreferred(available) ==
  LET listed == {i \in 1..Len(PreferredModels) : PreferredModels[i] \in available}
  IN IF listed = {} THEN S(<<"gpt-4o-mini">>)
     ELSE PreferredModels[CHOOSE i \in listed : \A j \in listed : i <= j]

\* C8: when the model list is fetched, chooseModel returns the most preferred entry of
\* the preference list that the answer lists, whatever the order of the answer, and
\* "gpt-4o-mini" when it lists none (an empty or missing list too); of gpt-4o-mini
\* and gpt-4.1 it returns gpt-4.1.
C8_MostPreferredAvailable ==
  [][(Resumes("llm-bot", "models.list") /\ ~answer.raised) =>
       /\ Bot'.chosenModel = MostPreferred(ListedIds(answer.value))
       /\ ListedIds(answer.value) = {S(<<"gpt-4o-mini">>), S(<<"gpt-4.1">>)}
            => Bot'.chosenModel = S(<<"gpt-4.1">>)]_vars

\* gpt-4.1 chosen, which only an answer listing it can give
C8_Witness ==
  /\ Bot.pc = "await responses.create"
  /\ Bot.chosenModel = S(<<"gpt-4.1">>)
  /\ Bot.logs = <<>>

(* ---------------- C9 ---------------- *)
\* C9: whatever models.list does (any list, an empty or malformed one, any error),
\* chooseModel does not raise and returns a non-empty identifier, the default
\* "gpt-4o-mini" whenever the listing raised; the run goes on and asks for the
\* completion.
C9_SelectionIsTotal ==
  [][Resumes("llm-bot", "models.list") =>
       /\ Bot'.pc = "await responses.create"
       /\ PresentAndNonEmpty(Bot'.chosenModel)
       /\ answer.raised => Bot'.chosenModel = S(<<"gpt-4o-mini">>)
       /\ CallNames(Bot') = Append(CallNames(Bot), "responses.create")
       /\ AskedModel(Bot') = Bot'.chosenModel]_vars

\* the listing failed, the default was chosen and the completion asked for
C9_Witness ==
  /\ Bot.pc = "await responses.create"
  /\ Bot.logs = <<ListFailedLog>>
  /\ Bot.chosenModel = S(<<"gpt-4o-mini">>)
  /\ AskedModel(Bot) = S(<<"gpt-4o-mini">>)

(* ---------------- C10 ---------------- *)
PassOrder == <<"pulls.get", "paginate(listFiles)", "models.list", "responses.create">>

\* C10: a run of the llm-bot script is one pass in the order validation, PR fetch,
\* file listing, prompt, model list, completion, output: no call is made unless the
\* four configuration values are present and non-empty, the completion is asked for
\* at most once and only with the model that selection returned, and "body" is
\* emitted at most once, only after the completion has settled.
C10_SinglePass ==
  /\ Len(Bot.calls) <= Len(PassOrder)
  /\ CallNames(Bot) = SubSeq(PassOrder, 1, Len(Bot.calls))
  /\ Bot.calls # <<>> =>
       /\ PresentAndNonEmpty(env.OPENAI_API_KEY)
       /\ PresentAndNonEmpty(env.GITHUB_TOKEN)
       /\ PresentAndNonEmpty(env.PR_NUMBER)
       /\ PresentAndNonEmpty(env.REPO)
  /\ Bot.pc \in {"await pulls.get", "await listFiles", "await models.list",
                 "await responses.create"} =>
       Bot.pc = <<"await pulls.get", "await listFiles", "await models.list",
                  "await responses.create">>[Len(Bot.calls)]
  /\ Composes(Bot) <=> Len(Bot.calls) >= 3
  /\ Cardinality(CallsTo(Bot, "responses.create")) <= 1
  /\ \A i \in CallsTo(Bot, "responses.create") :
       /\ PresentAndNonEmpty(Bot.chosenModel)
       /\ Bot.calls[i].args.model = Bot.chosenModel
  /\ Len(Bot.outputs) <= 1
  /\ Bot.outputs # <<>> =>
       /\ Bot.pc = "done"
       /\ Bot.outputs[1].name = "body"
       /\ CallsTo(Bot, "responses.create") # {}
       /\ answer.api # "responses.create"
  /\ Bot.pc = "done" => Len(Bot.outputs) = 1

\* a finished pass: four calls, one output
C10_Witness ==
  /\ Bot.pc = "done"
  /\ CallNames(Bot) = PassOrder
  /\ Len(Bot.outputs) = 1

====
